---- MODULE Spec2Model ----
(***************************************************************************)
(* A model of the DroNET entity and protocol engine                        *)
(* (src/src/entities/uav_entities.py) and of the QTAR routing strategy     *)
(* (src/src/routing_algorithms/qtar_routing.py).                           *)
(*                                                                         *)
(* Conventions.                                                            *)
(*  - Drones are identified by their roster index 0 .. n_drones-1, as the  *)
(*    code does when it indexes simulator.drones and q_table by            *)
(*    identifier.                                                          *)
(*  - Events and packets are objects; an object is modelled by its index   *)
(*    in the table `events` / `packets`, and a buffer is a sequence of     *)
(*    packet indices (references, never copies).                           *)
(*  - Coordinates are pairs <<x, y>> of integers on the line y = 0, where  *)
(*    the Euclidean distance and the linear interpolation of the code are  *)
(*    exact in integer arithmetic.                                         *)
(*  - The deadline that may be NaN is a record [nan, val]; None is <<>>.   *)
(*  - A float of the hello interval is a pair <<n, d>>: n / d for d > 0,  *)
(*    inf for <<1, 0>> and nan for <<0, 0>>.                              *)
(*  - A q value v is stored as the integer v * QScale.                     *)
(***************************************************************************)
EXTENDS Integers, Sequences, FiniteSets, TLC

(* ------------------------------ bounds -------------------------------- *)
\* simulator.n_drones of the roster used by the buffer and depot specifications
NDrones == 2
\* last simulation step the model explores
MaxStep == 2
\* number of Event objects (and their packets) the model creates
MaxEvents == 2
\* cap on the length of the depot's (unbounded) buffer
MaxDepot == MaxEvents
\* longest list offered to accept_packets / remove_packets
MaxOffer == MaxEvents

(* --------------------- simulator configuration ------------------------ *)
\* simulator.event_duration
EventDuration == 1
\* simulator.packets_max_ttl
PacketsMaxTTL == 2
\* simulator.drone_max_energy
DroneMaxEnergy == 1

(* ------------------------- program constants -------------------------- *)
\* QTARRouting.A, B, C, each times 10
A10 == 7
B10 == 2
C10 == 1

\* a float that may be NaN: NaN, or Num(x) for the number x
NaN == [nan |-> TRUE, val |-> 0]
Num(x) == [nan |-> FALSE, val |-> x]
\* None, where a coordinate pair may stand
None == <<>>

VARIABLES
    routing_algorithm,        \* simulator.routing_algorithm.name, a sequence of characters
    n_drones,                 \* simulator.n_drones
    cur_step,                 \* simulator.cur_step
    events,                   \* every Event object built so far
    packets,                  \* every DataPacket object built so far
    buffer,                   \* Drone.__buffer, per drone
    depot_buffer,             \* Depot.__buffer
    tightest_event_deadline,  \* Drone.tightest_event_deadline, per drone
    events_not_listened,      \* simulator.metrics.events_not_listened
    residual_energy,          \* Drone.residual_energy, per drone
    q_table,                  \* QTARRouting.q_table, per drone
    taken_actions,            \* QTARRouting.taken_actions, per drone
    move_routing,             \* Drone.move_routing, per drone
    come_back_to_mission,     \* Drone.come_back_to_mission, per drone
    last_move_routing,        \* Drone.last_move_routing, per drone
    last_mission_coords,      \* Drone.last_mission_coords, per drone
    coords,                   \* Entity.coords of each drone
    current_waypoint,         \* Drone.current_waypoint, per drone
    speed,                    \* Drone.speed, per drone
    exited,                   \* exit(1) was called: the run is over
    dist_t1, t1, dist_t2, t2, \* Drone.dist_t1, t1, dist_t2, t2, per drone
    link_duration,            \* the local link_duration of the last update_hello_interval
    link_holding_timer,       \* Drone.link_holding_timer, per drone
    hello_interval,           \* Drone.hello_interval, per drone
    op,                       \* the record of the last relay_selection, move, update_packets
                              \* or accept_packets call, NoOp after another operation
    calls,                    \* the feedback calls the last operation made, in order
    hop_log                   \* per packet, the drones add_hop was called with, in order

bufvars == <<events, packets, buffer, depot_buffer, tightest_event_deadline,
             events_not_listened>>
qvars == <<residual_energy, q_table, taken_actions>>
flagvars == <<move_routing, come_back_to_mission>>
movevars == <<last_move_routing, last_mission_coords, coords, current_waypoint>>
hellovars == <<dist_t1, t1, dist_t2, t2, link_duration, link_holding_timer,
               hello_interval>>
cfgvars == <<routing_algorithm, n_drones, speed>>
vars == <<cfgvars, cur_step, bufvars, qvars, flagvars, movevars, hellovars,
          exited, op, calls, hop_log>>

Drones == 0 .. (n_drones - 1)

(* ------------------------- Python helpers ----------------------------- *)
\* list[i] / ndarray[i] with a negative i counts from the end
PyIndex(i, n) == IF i < 0 THEN n + i ELSE i

\* s in t, for strings s and t given as sequences of characters
StrIn(s, t) ==
    \E i \in 1 .. (Len(t) - Len(s) + 1) : SubSeq(t, i, i + Len(s) - 1) = s

GEO == <<"G", "E", "O">>
RND == <<"R", "N", "D">>
GEOS == <<"G", "E", "O", "S">>
QTAR == <<"Q", "T", "A", "R">>
\* the members of the routing-algorithm enumeration the model runs
AlgNames == {GEO, RND, GEOS, QTAR}

\* the literal "GEO" "RND" "GEOS" (adjacent literals are concatenated)
BaselineLiteral == GEO \o RND \o GEOS

\* a test that compares the name with the whole literal
GivesFeedbackIfNotLiteral(name) == name # BaselineLiteral

\* self.simulator.routing_algorithm.name not in "GEO" "RND" "GEOS"
GivesFeedback(name) == ~StrIn(name, BaselineLiteral)

(* ----------------------- Event and Packet ----------------------------- *)
\* Event.__init__ as feel_event calls it (deadline left at -1)
NewEvent(c, current_time) ==
    [coords |-> c, current_time |-> current_time,
     deadline |-> current_time + EventDuration]

\* Event.is_expired
EventIsExpired(ev, step) == step > ev.deadline

\* Packet.__init__
NewPacket(time_step_creation, event_ref) ==
    [event_ref |-> event_ref, time_step_creation |-> time_step_creation,
     TTL |-> -1, last_2_hops |-> <<>>, time_delivery |-> -1]

\* an add_hop that does not count the hop once the window is full
AddHopUncountedWhenFull(pck, drone) ==
    LET kept == IF Len(pck.last_2_hops) = 2
                THEN Tail(pck.last_2_hops) ELSE pck.last_2_hops
    IN [pck EXCEPT !.last_2_hops = Append(kept, drone),
                   !.TTL = IF Len(pck.last_2_hops) = 2 THEN @ ELSE @ + 1]

\* an add_hop that evicts the newer of the two kept hops
AddHopEvictsNewer(pck, drone) ==
    LET kept == IF Len(pck.last_2_hops) = 2
                THEN <<pck.last_2_hops[1]>> ELSE pck.last_2_hops
    IN [pck EXCEPT !.last_2_hops = Append(kept, drone), !.TTL = @ + 1]

\* Packet.add_hop, with increase_TTL_hops
AddHop(pck, drone) ==
    LET kept == IF Len(pck.last_2_hops) = 2
                THEN Tail(pck.last_2_hops) ELSE pck.last_2_hops
    IN [pck EXCEPT !.last_2_hops = Append(kept, drone), !.TTL = @ + 1]

\* an as_packet that does not add the drone as first hop
AsPacketNoHop(event_ref, time_step_creation, drone) ==
    NewPacket(time_step_creation, event_ref)

\* Event.as_packet
AsPacket(event_ref, time_step_creation, drone) ==
    AddHop(NewPacket(time_step_creation, event_ref), drone)

\* an expiry test that already fires at the deadline
PacketIsExpiredAtDeadline(p, step) == step >= events[packets[p].event_ref].deadline

\* an expiry test that also fires when the hop count reached the maximum TTL
PacketIsExpiredOnTTL(p, step) ==
    \/ step > events[packets[p].event_ref].deadline
    \/ packets[p].TTL >= PacketsMaxTTL

\* Packet.is_expired, of the packet object p
PacketIsExpired(p, step) == step > events[packets[p].event_ref].deadline

\* np.nanmin([a, b]) where a may be NaN and b is a number
NanMin(a, b) == IF a.nan THEN b ELSE IF a.val < b THEN a.val ELSE b

(* ------------------------------ QTAR ---------------------------------- *)
\* the factor by which stored q values are scaled
QScale == 10 * PacketsMaxTTL * DroneMaxEnergy

\* A * delay / packets_max_ttl + B * 1 + C * residual_energy / drone_max_energy,
\* times QScale
Reward(delay, energy) ==
    A10 * delay * DroneMaxEnergy + B10 * PacketsMaxTTL * DroneMaxEnergy
        + C10 * energy * PacketsMaxTTL

\* feedback that forgets to remove the pending entry
FeedbackKeepsEntry(q, ta, drone, id_event, delay, outcome) ==
    IF id_event \in DOMAIN ta
    THEN [q  |-> [q EXCEPT ![PyIndex(ta[id_event][2], n_drones)] =
                     A10 * delay * DroneMaxEnergy + B10 * PacketsMaxTTL * DroneMaxEnergy
                         + C10 * residual_energy[drone] * PacketsMaxTTL],
          ta |-> ta]
    ELSE [q |-> q, ta |-> ta]

\* QTARRouting.feedback on the instance with table q and pending map ta;
\* drone is the drone given as provider. The result is the instance after the call.
Feedback(q, ta, drone, id_event, delay, outcome) ==
    IF id_event \in DOMAIN ta
    THEN LET action == ta[id_event][2]
         IN [q  |-> [q EXCEPT ![PyIndex(action, n_drones)] =
                         Reward(delay, residual_energy[drone])],
             ta |-> [e \in (DOMAIN ta) \ {id_event} |-> ta[e]]]
    ELSE [q |-> q, ta |-> ta]

\* a feedback given to the instance of the providing drone only
BroadcastToOwner(k, st, current_drone, id_event, delay, outcome) ==
    LET r == IF id_event \in DOMAIN st.ta[current_drone]
             THEN [q  |-> [st.q[current_drone] EXCEPT
                              ![PyIndex(st.ta[current_drone][id_event][2], n_drones)] =
                                  A10 * delay * DroneMaxEnergy
                                      + B10 * PacketsMaxTTL * DroneMaxEnergy
                                      + C10 * residual_energy[current_drone] * PacketsMaxTTL],
                   ta |-> [e \in (DOMAIN st.ta[current_drone]) \ {id_event} |->
                              st.ta[current_drone][e]]]
             ELSE [q |-> st.q[current_drone], ta |-> st.ta[current_drone]]
    IN [st EXCEPT !.q[current_drone] = r.q, !.ta[current_drone] = r.ta,
                  !.calls = Append(@, [to |-> current_drone, drone |-> current_drone,
                                       id_event |-> id_event, delay |-> delay,
                                       outcome |-> outcome])]

\* for drone in self.simulator.drones: drone.routing_algorithm.feedback(...)
\* from roster index k on; st holds every instance's q and ta and the calls made
RECURSIVE Broadcast(_, _, _, _, _, _)
Broadcast(k, st, current_drone, id_event, delay, outcome) ==
    IF k >= n_drones THEN st
    ELSE LET r == Feedback(st.q[k], st.ta[k], current_drone, id_event, delay, outcome)
         IN Broadcast(k + 1,
                [st EXCEPT !.q[k] = r.q, !.ta[k] = r.ta,
                           !.calls = Append(@, [to |-> k, drone |-> current_drone,
                                                id_event |-> id_event,
                                                delay |-> delay,
                                                outcome |-> outcome])],
                current_drone, id_event, delay, outcome)

\* the results np.argsort(q) may give: the default sort is not stable, so any
\* order of the indices that is ascending by value
ArgSort(q) ==
    {p \in [1 .. n_drones -> Drones] :
        /\ \A i, j \in 1 .. n_drones : i # j => p[i] # p[j]
        /\ \A i \in 1 .. (n_drones - 1) : q[p[i]] <= q[p[i + 1]]}

\* a scan that takes the last neighbor in the sorted order (the highest value)
RECURSIVE LastNeighbor(_, _, _)
LastNeighbor(sorted_q_table, i, neighborsId) ==
    IF i > Len(sorted_q_table) THEN -1
    ELSE LET later == LastNeighbor(sorted_q_table, i + 1, neighborsId)
         IN IF later # -1 THEN later
            ELSE IF sorted_q_table[i] \in neighborsId THEN sorted_q_table[i]
            ELSE -1

\* for droneId in sorted_q_table: if droneId in neighborsId: action = droneId; break
RECURSIVE FirstNeighbor(_, _, _)
FirstNeighbor(sorted_q_table, i, neighborsId) ==
    IF i > Len(sorted_q_table) THEN -1
    ELSE IF sorted_q_table[i] \in neighborsId THEN sorted_q_table[i]
    ELSE FirstNeighbor(sorted_q_table, i + 1, neighborsId)

\* the identifiers of selected_drones: the hinted drone, or the two-hop
\* neighbors that pass the speed test (fast)
SelectedDrones(drone_near_depot_id, fast) ==
    IF drone_near_depot_id # -1 THEN {drone_near_depot_id} ELSE fast

(* --------------------------- Drone buffer ----------------------------- *)
\* Drone.is_known_packet on the buffer buf: Entity.__eq__ compares identifiers
IsKnownPacket(buf, p) ==
    \E i \in 1 .. Len(buf) : packets[buf[i]].event_ref = packets[p].event_ref

\* an accept loop that tests every offered packet against the buffer it
\* started from only
AcceptLoopChecksStart(buf, offered, i) ==
    buf \o SelectSeq(offered, LAMBDA x : ~IsKnownPacket(buf, x))

\* the loop of Drone.accept_packets from position i of the offered list on
RECURSIVE AcceptLoop(_, _, _)
AcceptLoop(buf, offered, i) ==
    IF i > Len(offered) THEN buf
    ELSE IF ~IsKnownPacket(buf, offered[i])
         THEN AcceptLoop(Append(buf, offered[i]), offered, i + 1)
         ELSE AcceptLoop(buf, offered, i + 1)

\* list.remove(x): the list without the first occurrence of x
ListRemove(buf, x) ==
    LET k == CHOOSE i \in 1 .. Len(buf) :
                 buf[i] = x /\ \A j \in 1 .. (i - 1) : buf[j] # x
    IN SubSeq(buf, 1, k - 1) \o SubSeq(buf, k + 1, Len(buf))

\* the loop of Drone.remove_packets from position i of the list on
RECURSIVE RemoveLoop(_, _, _)
RemoveLoop(buf, removed, i) ==
    IF i > Len(removed) THEN buf
    ELSE IF \E j \in 1 .. Len(buf) : buf[j] = removed[i]
         THEN RemoveLoop(ListRemove(buf, removed[i]), removed, i + 1)
         ELSE RemoveLoop(buf, removed, i + 1)

\* the loop of Drone.update_packets over self.__buffer from position i on;
\* st holds tmp_buffer, tightest_event_deadline, every routing instance's q and
\* ta, and the feedback calls made so far
RECURSIVE UpdatePacketsLoop(_, _, _, _)
UpdatePacketsLoop(self, i, step, st) ==
    IF i > Len(buffer[self]) THEN st
    ELSE LET pck == buffer[self][i]
         IN IF ~PacketIsExpired(pck, step)
            THEN UpdatePacketsLoop(self, i + 1, step,
                     [st EXCEPT !.tmp_buffer = Append(@, pck),
                                !.tightest = Num(NanMin(@,
                                    events[packets[pck].event_ref].deadline))])
            ELSE IF GivesFeedback(routing_algorithm)
                 THEN UpdatePacketsLoop(self, i + 1, step,
                          Broadcast(0, st, self, packets[pck].event_ref,
                                    EventDuration, -1))
                 ELSE UpdatePacketsLoop(self, i + 1, step, st)

\* a hand-off that stamps the delivery time of a packet only once
RECURSIVE TransferLoopStampsOnce(_, _, _, _)
TransferLoopStampsOnce(current_drone, i, step, st) ==
    IF i > Len(buffer[current_drone]) THEN st
    ELSE LET pck == buffer[current_drone][i]
             fed == IF ~StrIn(routing_algorithm, BaselineLiteral)
                    THEN Broadcast(0, st, current_drone, packets[pck].event_ref,
                             step - events[packets[pck].event_ref].current_time, 1)
                    ELSE st
         IN TransferLoopStampsOnce(current_drone, i + 1, step,
                [fed EXCEPT !.packets[pck].time_delivery =
                                IF @ = -1 THEN step ELSE @])

\* the loop of Depot.transfer_notified_packets over packets_to_offload from
\* position i on; st holds the packet table, every routing instance's q and ta,
\* and the feedback calls made so far
RECURSIVE TransferLoop(_, _, _, _)
TransferLoop(current_drone, i, step, st) ==
    IF i > Len(buffer[current_drone]) THEN st
    ELSE LET pck == buffer[current_drone][i]
             fed == IF GivesFeedback(routing_algorithm)
                    THEN Broadcast(0, st, current_drone, packets[pck].event_ref,
                             step - events[packets[pck].event_ref].current_time, 1)
                    ELSE st
         IN TransferLoop(current_drone, i + 1, step,
                [fed EXCEPT !.packets[pck].time_delivery = step])

\* config: simulator.drone_max_buffer_size (Drone.buffer_max_size)
BufferMaxSize == 1

\* every sequence over S of length lo .. hi
SeqsOf(S, lo, hi) == UNION {[1 .. k -> S] : k \in lo .. hi}

(* ------------------------- mission geometry --------------------------- *)
\* largest x coordinate of the map
MaxCoord == 4
\* the path of every drone: two waypoints on the line y = 0
Path == <<<<0, 0>>, <<MaxCoord, 0>>>>
\* simulator.depot_coordinates, Depot.coords
DepotCoords == <<1, 0>>
\* the sentinel distance of Drone.__init__
Sentinel == 2030

(* --------------------------- construction ----------------------------- *)
NoOp == [name |-> "none"]

\* the state after the simulator built n drones of speed s, the depot and one
\* routing instance per drone, under the routing algorithm named alg
Construct(alg, n, s) ==
    /\ routing_algorithm = alg
    /\ n_drones = n
    /\ speed = [d \in 0 .. (n - 1) |-> s]
    /\ cur_step = 0
    /\ events = <<>>
    /\ packets = <<>>
    /\ buffer = [d \in 0 .. (n - 1) |-> <<>>]
    /\ depot_buffer = <<>>
    /\ tightest_event_deadline = [d \in 0 .. (n - 1) |-> NaN]
    /\ events_not_listened = {}
    /\ residual_energy = [d \in 0 .. (n - 1) |-> DroneMaxEnergy]
    /\ q_table = [d \in 0 .. (n - 1) |-> [i \in 0 .. (n - 1) |-> 0]]
    /\ taken_actions = [d \in 0 .. (n - 1) |-> <<>>]
    /\ move_routing = [d \in 0 .. (n - 1) |-> FALSE]
    /\ come_back_to_mission = [d \in 0 .. (n - 1) |-> FALSE]
    /\ last_move_routing = [d \in 0 .. (n - 1) |-> FALSE]
    /\ last_mission_coords = [d \in 0 .. (n - 1) |-> None]
    /\ coords = [d \in 0 .. (n - 1) |-> Path[1]]
    /\ current_waypoint = [d \in 0 .. (n - 1) |-> 0]
    /\ exited = FALSE
    /\ dist_t1 = [d \in 0 .. (n - 1) |-> [i \in 0 .. (n - 1) |-> Sentinel]]
    /\ t1 = [d \in 0 .. (n - 1) |-> [i \in 0 .. (n - 1) |-> 0]]
    /\ dist_t2 = [d \in 0 .. (n - 1) |-> [i \in 0 .. (n - 1) |-> Sentinel]]
    /\ t2 = [d \in 0 .. (n - 1) |-> [i \in 0 .. (n - 1) |-> 0]]
    /\ link_duration = <<>>
    /\ link_holding_timer = [d \in 0 .. (n - 1) |-> <<0, 1>>]
    /\ hello_interval = [d \in 0 .. (n - 1) |-> <<1, 1>>]
    /\ op = NoOp
    /\ calls = <<>>
    /\ hop_log = <<>>

(* ------------------- buffer, depot and QTAR actions ------------------- *)
\* the scheduler advances simulator.cur_step
Tick ==
    /\ ~exited
    /\ cur_step < MaxStep
    /\ cur_step' = cur_step + 1
    /\ op' = NoOp
    /\ calls' = <<>>
    /\ UNCHANGED <<cfgvars, hop_log, bufvars, qvars, flagvars, movevars, hellovars, exited>>

\* Drone.feel_event(cur_step) on drone self
FeelEvent(self) ==
    /\ ~exited
    /\ Len(events) < MaxEvents
    /\ LET ev == Len(events) + 1
           pk == Len(packets) + 1
       IN /\ events' = Append(events, NewEvent(coords[self], cur_step))
          /\ packets' = Append(packets, AsPacket(ev, cur_step, self))
          /\ hop_log' = Append(hop_log, <<self>>)
          /\ IF ~move_routing[self] /\ ~come_back_to_mission[self]
             THEN /\ buffer' = [buffer EXCEPT ![self] = Append(@, pk)]
                  /\ UNCHANGED events_not_listened
             ELSE /\ events_not_listened' = events_not_listened \cup {ev}
                  /\ UNCHANGED buffer
          /\ op' = NoOp
    /\ calls' = <<>>
    /\ UNCHANGED <<cfgvars, cur_step, depot_buffer, tightest_event_deadline,
                   qvars, flagvars, movevars, hellovars, exited>>

\* Drone.accept_packets(offered) on drone self; the record of the call keeps
\* the offered list and the buffer as the call found it
AcceptPackets(self, offered) ==
    /\ ~exited
    /\ buffer' = [buffer EXCEPT ![self] = AcceptLoop(@, offered, 1)]
    /\ op' = [name |-> "accept_packets", drone |-> self,
              offered |-> offered, before |-> buffer[self]]
    /\ calls' = <<>>
    /\ UNCHANGED <<cfgvars, hop_log, cur_step, events, packets, depot_buffer,
                   tightest_event_deadline, events_not_listened, qvars, flagvars,
                   movevars, hellovars, exited>>

\* Drone.remove_packets(removed) on drone self
RemovePackets(self, removed) ==
    /\ ~exited
    /\ buffer' = [buffer EXCEPT ![self] = RemoveLoop(@, removed, 1)]
    /\ op' = NoOp
    /\ calls' = <<>>
    /\ UNCHANGED <<cfgvars, hop_log, cur_step, events, packets, depot_buffer,
                   tightest_event_deadline, events_not_listened, qvars, flagvars,
                   movevars, hellovars, exited>>

\* Drone.empty_buffer() on drone self
EmptyBuffer(self) ==
    /\ ~exited
    /\ buffer' = [buffer EXCEPT ![self] = <<>>]
    /\ op' = NoOp
    /\ calls' = <<>>
    /\ UNCHANGED <<cfgvars, hop_log, cur_step, events, packets, depot_buffer,
                   tightest_event_deadline, events_not_listened, qvars, flagvars,
                   movevars, hellovars, exited>>

\* an end of update_packets that clears the flag only when it pruned the
\* last packets
MoveRoutingClearedIfPruned(self, tmp_buffer) ==
    IF Len(tmp_buffer) = 0 /\ Len(buffer[self]) > 0
    THEN [move_routing EXCEPT ![self] = FALSE]
    ELSE move_routing

\* the end of update_packets: if self.buffer_length() == 0: self.move_routing = False
MoveRoutingAfterUpdate(self, tmp_buffer) ==
    IF Len(tmp_buffer) = 0
    THEN [move_routing EXCEPT ![self] = FALSE]
    ELSE move_routing

\* Drone.update_packets(cur_step) on drone self; the record of the call keeps
\* move_routing and the buffer as the call found them
UpdatePackets(self) ==
    /\ ~exited
    /\ LET st == UpdatePacketsLoop(self, 1, cur_step,
                     [tmp_buffer |-> <<>>, tightest |-> NaN,
                      q |-> q_table, ta |-> taken_actions, calls |-> <<>>])
       IN /\ buffer' = [buffer EXCEPT ![self] = st.tmp_buffer]
          /\ tightest_event_deadline' =
                 [tightest_event_deadline EXCEPT ![self] = st.tightest]
          /\ q_table' = st.q
          /\ taken_actions' = st.ta
          /\ calls' = st.calls
          /\ move_routing' = MoveRoutingAfterUpdate(self, st.tmp_buffer)
    /\ op' = [name |-> "update_packets", drone |-> self,
              move_routing |-> move_routing[self], before |-> buffer[self]]
    /\ UNCHANGED <<cfgvars, hop_log, cur_step, events, packets, depot_buffer,
                   events_not_listened, residual_energy, come_back_to_mission,
                   movevars, hellovars, exited>>

\* Depot.transfer_notified_packets(current_drone, cur_step)
TransferNotifiedPackets(current_drone) ==
    /\ ~exited
    /\ Len(depot_buffer) + Len(buffer[current_drone]) <= MaxDepot
    /\ LET st == TransferLoop(current_drone, 1, cur_step,
                     [packets |-> packets, q |-> q_table, ta |-> taken_actions,
                      calls |-> <<>>])
       IN /\ depot_buffer' = depot_buffer \o buffer[current_drone]
          /\ packets' = st.packets
          /\ q_table' = st.q
          /\ taken_actions' = st.ta
          /\ calls' = st.calls
    /\ op' = NoOp
    /\ UNCHANGED <<cfgvars, hop_log, cur_step, events, buffer, tightest_event_deadline,
                   events_not_listened, residual_energy, flagvars, movevars,
                   hellovars, exited>>

\* QTARRouting.relay_selection(packet, drone_near_depot_id) on the instance of
\* drone self; fast is the set of two-hop neighbors that pass the speed test
RelaySelection(self, packet, drone_near_depot_id, fast) ==
    /\ ~exited
    /\ routing_algorithm = QTAR
    /\ \E sorted_q_table \in ArgSort(q_table[self]) :
         LET state == self
             neighborsId == SelectedDrones(drone_near_depot_id, fast)
             action == FirstNeighbor(sorted_q_table, 1, neighborsId)
             id_event == packets[packet].event_ref
             ta == taken_actions[self]
         IN /\ taken_actions' = [taken_actions EXCEPT ![self] =
                    [e \in (DOMAIN ta) \cup {id_event} |->
                        IF e = id_event THEN <<state, action>> ELSE ta[e]]]
            /\ op' = [name |-> "relay_selection", drone |-> self,
                      packet |-> packet, id_event |-> id_event,
                      neighborsId |-> neighborsId, action |-> action,
                      ret |-> PyIndex(action, n_drones)]
    /\ calls' = <<>>
    /\ UNCHANGED <<cfgvars, hop_log, cur_step, bufvars, residual_energy, q_table,
                   flagvars, movevars, hellovars, exited>>

\* Drone.update_battery on drone self: the energy drops by a random amount
UpdateBattery(self) ==
    /\ ~exited
    /\ residual_energy[self] > 0
    /\ residual_energy' = [residual_energy EXCEPT ![self] = @ - 1]
    /\ op' = NoOp
    /\ calls' = <<>>
    /\ UNCHANGED <<cfgvars, hop_log, cur_step, bufvars, q_table, taken_actions, flagvars,
                   movevars, hellovars, exited>>

\* the routing policy sets move_routing of drone self
SetMoveRouting(self, b) ==
    /\ ~exited
    /\ move_routing[self] # b
    /\ move_routing' = [move_routing EXCEPT ![self] = b]
    /\ UNCHANGED <<cfgvars, hop_log, cur_step, bufvars, qvars, come_back_to_mission,
                   movevars, hellovars, exited, op, calls>>

\* the largest number of add_hop calls made on packets after their creation
MaxHops == 3

\* the add_hop calls made after the creation of the packets
RECURSIVE LaterHops(_)
LaterHops(k) == IF k = 0 THEN 0 ELSE (Len(hop_log[k]) - 1) + LaterHops(k - 1)

\* Packet.add_hop(drone) on the packet object packet, as a forwarding drone
\* calls it
PacketAddHop(packet, drone) ==
    /\ ~exited
    /\ LaterHops(Len(hop_log)) < MaxHops
    /\ packets' = [packets EXCEPT ![packet] = AddHop(@, drone)]
    /\ hop_log' = [hop_log EXCEPT ![packet] = Append(@, drone)]
    /\ op' = NoOp
    /\ calls' = <<>>
    /\ UNCHANGED <<cfgvars, cur_step, events, buffer, depot_buffer,
                   tightest_event_deadline, events_not_listened, qvars, flagvars,
                   movevars, hellovars, exited>>

(* ------------------------------ Entity -------------------------------- *)
\* an entity, by the two fields Entity.__init__ sets
Entity(identifier, c) == [identifier |-> identifier, coords |-> c]

\* Entity.__eq__, for two entities
EntityEq(a, b) == b.identifier = a.identifier

\* Entity.__hash__: hash((self.identifier, self.coords)). The hash of a tuple
\* is a function of the tuple that has no collision on the identifiers and
\* coordinates of this model; it is modelled by the tuple.
EntityHash(e) == <<e.identifier, e.coords>>

\* Drone.__hash__: hash(self.identifier), the identifier itself for an int
DroneHash(e) == e.identifier

\* the coordinates of the map
MapCoords == {<<x, 0>> : x \in 0 .. MaxCoord}

(* ----------------------------- mobility ------------------------------- *)
\* config.TS_DURATION, the time argument the simulator passes to Drone.move
TimeStepDuration == 1

\* utilities.euclidean_distance(p0, p1); the roster lies on one line, so the
\* root is an integer
EuclideanDistance(p0, p1) ==
    LET sq == (p0[1] - p1[1]) * (p0[1] - p1[1]) + (p0[2] - p1[2]) * (p0[2] - p1[2])
    IN CHOOSE r \in 0 .. sq : r * r = sq

\* ((1 - t) * p0[0] + t * p1[0], (1 - t) * p0[1] + t * p1[1]) for
\* t = distance / all_distance, which is p0 + (p1 - p0) * distance / all_distance
Interpolate(p0, p1, distance, all_distance) ==
    <<p0[1] + ((p1[1] - p0[1]) * distance) \div all_distance,
      p0[2] + ((p1[2] - p0[2]) * distance) \div all_distance>>

\* self.path[i], with Python's indexing
PathAt(i) == Path[PyIndex(i, Len(Path)) + 1]

\* the fields of drone self that a move call reads and writes
DroneState(self) ==
    [coords |-> coords[self],
     move_routing |-> move_routing[self],
     come_back_to_mission |-> come_back_to_mission[self],
     last_mission_coords |-> last_mission_coords[self],
     current_waypoint |-> current_waypoint[self],
     exited |-> FALSE]

\* an __update_position that leaves the waypoint index as it is
UpdatePositionKeepsWaypoint(st, p1) ==
    IF st.come_back_to_mission
    THEN [st EXCEPT !.come_back_to_mission = FALSE, !.coords = p1]
    ELSE [st EXCEPT !.coords = p1]

\* Drone.__update_position(p1)
UpdatePosition(st, p1) ==
    IF st.come_back_to_mission
    THEN [st EXCEPT !.come_back_to_mission = FALSE, !.coords = p1]
    ELSE [st EXCEPT !.current_waypoint = @ + 1,
                    !.coords = PathAt(st.current_waypoint + 1)]

\* the first statement of __move_to_mission: past the end of the path the
\* waypoint index restarts at -1
WrapWaypoint(st) ==
    IF st.current_waypoint >= Len(Path) - 1
    THEN [st EXCEPT !.current_waypoint = -1] ELSE st

\* p1 of __move_to_mission, after the waypoint index wrapped
MissionTarget(st) ==
    IF st.come_back_to_mission THEN st.last_mission_coords
    ELSE PathAt(st.current_waypoint + 1)

\* Drone.next_target() of drone self
NextTarget(self) ==
    IF move_routing[self] THEN DepotCoords
    ELSE IF come_back_to_mission[self] THEN last_mission_coords[self]
    ELSE IF current_waypoint[self] >= Len(Path) - 1 THEN PathAt(0)
    ELSE PathAt(current_waypoint[self] + 1)

\* Drone.__move_to_mission(time), distance = time * self.speed
MoveToMission(st0, distance) ==
    LET st == WrapWaypoint(st0)
        p0 == st.coords
        p1 == MissionTarget(st)
        all_distance == EuclideanDistance(p0, p1)
    IN IF all_distance = 0 \/ distance = 0 THEN UpdatePosition(st, p1)
       ELSE IF distance >= all_distance THEN UpdatePosition(st, p1)
       ELSE IF distance <= 0 THEN [st EXCEPT !.exited = TRUE]
       ELSE [st EXCEPT !.coords = Interpolate(p0, p1, distance, all_distance)]

\* a __move_to_depot that interpolates even when the step passes the depot
MoveToDepotNoSnap(st, distance) ==
    LET p0 == st.coords
        p1 == DepotCoords
        all_distance == EuclideanDistance(p0, p1)
    IN IF all_distance = 0 THEN [st EXCEPT !.move_routing = FALSE]
       ELSE IF distance <= 0 THEN [st EXCEPT !.exited = TRUE]
       ELSE [st EXCEPT !.coords = Interpolate(p0, p1, distance, all_distance)]

\* Drone.__move_to_depot(time), distance = time * self.speed
MoveToDepot(st, distance) ==
    LET p0 == st.coords
        p1 == DepotCoords
        all_distance == EuclideanDistance(p0, p1)
    IN IF all_distance = 0 THEN [st EXCEPT !.move_routing = FALSE]
       ELSE IF distance >= all_distance THEN [st EXCEPT !.coords = p1]
       ELSE IF distance <= 0 THEN [st EXCEPT !.exited = TRUE]
       ELSE [st EXCEPT !.coords = Interpolate(p0, p1, distance, all_distance)]

\* Drone.move(time) on drone self. The record of the call keeps move_routing
\* as the call found it, come_back_to_mission as the call set it before it
\* moved, the position the call started from and the target it headed to.
\* exit(1) ends the run before last_move_routing is assigned.
Move(self, time) ==
    /\ ~exited
    /\ LET st0 == DroneState(self)
           st1 == IF st0.move_routing
                  THEN IF ~last_move_routing[self]
                       THEN [st0 EXCEPT !.last_mission_coords = st0.coords]
                       ELSE st0
                  ELSE IF last_move_routing[self]
                       THEN [st0 EXCEPT !.come_back_to_mission = TRUE]
                       ELSE st0
           distance == time * speed[self]
           st2 == IF st0.move_routing THEN MoveToDepot(st1, distance)
                  ELSE MoveToMission(st1, distance)
           p1 == IF st0.move_routing THEN DepotCoords
                 ELSE MissionTarget(WrapWaypoint(st1))
       IN /\ coords' = [coords EXCEPT ![self] = st2.coords]
          /\ move_routing' = [move_routing EXCEPT ![self] = st2.move_routing]
          /\ come_back_to_mission' =
                [come_back_to_mission EXCEPT ![self] = st2.come_back_to_mission]
          /\ last_mission_coords' =
                [last_mission_coords EXCEPT ![self] = st2.last_mission_coords]
          /\ current_waypoint' =
                [current_waypoint EXCEPT ![self] = st2.current_waypoint]
          /\ last_move_routing' =
                IF st2.exited THEN last_move_routing
                ELSE [last_move_routing EXCEPT ![self] = st2.move_routing]
          /\ exited' = st2.exited
          /\ op' = [name |-> "move", drone |-> self,
                    move_routing |-> st0.move_routing,
                    come_back_to_mission |-> st1.come_back_to_mission,
                    from |-> st0.coords, p1 |-> p1]
    /\ calls' = <<>>
    /\ UNCHANGED <<cfgvars, hop_log, cur_step, bufvars, qvars, hellovars>>

(* -------------------------- hello interval ---------------------------- *)
\* self.communication_range (simulator.drone_com_range)
CommunicationRange == 2

\* self.tau = 0.5, as the fraction TauNum / TauDen
TauNum == 1
TauDen == 2

\* A float is a pair <<n, d>>: the fraction n / d for d > 0, inf for <<1, 0>>
\* and nan for <<0, 0>>.
Inf == <<1, 0>>
FloatNaN == <<0, 0>>
IsNaN(x) == x = FloatNaN

Abs(x) == IF x < 0 THEN -x ELSE x

\* x <= y for floats that are not nan
FloatLeq(x, y) ==
    IF y = Inf THEN TRUE
    ELSE IF x = Inf THEN FALSE
    ELSE x[1] * y[2] <= y[1] * x[2]

\* numpy's a / b for a numpy float a: inf or nan on a zero divisor
FloatDiv(a, b) ==
    IF b # 0 THEN IF b > 0 THEN <<a, b>> ELSE <<-a, -b>>
    ELSE IF a = 0 THEN FloatNaN ELSE Inf

\* np.nanmax(l): the largest entry that is not nan, nan when there is none
RECURSIVE NanMax(_, _, _)
NanMax(l, i, best) ==
    IF i > Len(l) THEN best
    ELSE LET x == l[i].val
         IN NanMax(l, i + 1,
                   IF IsNaN(x) THEN best
                   ELSE IF IsNaN(best) THEN x
                   ELSE IF FloatLeq(best, x) THEN x ELSE best)

\* np.ceil(self.tau * x)
CeilTau(x) ==
    IF x[2] = 0 THEN x
    ELSE <<-((-(TauNum * x[1])) \div (TauDen * x[2])), 1>>

\* Drone.calc_distances(neighbor_drones): the samples are written under the
\* identifier of each neighbor
RECURSIVE CalcDistances(_, _, _, _)
CalcDistances(st, self, neighbor_drones, k) ==
    IF k > Len(neighbor_drones) THEN st
    ELSE LET neighbor == neighbor_drones[k]
         IN CalcDistances(
                [st EXCEPT !.dist_t2[neighbor] =
                               EuclideanDistance(coords[self], coords[neighbor]),
                           !.t2[neighbor] = cur_step],
                self, neighbor_drones, k + 1)

\* a loop body that takes the first branch when the distance decreased
LinkDurationOnDecrease(self, i, st) ==
    LET delta == st.dist_t2[i] - dist_t1[self][i]
    IN IF delta < 0
       THEN [delta |-> delta, branch |-> "closing",
             val |-> IF st.t2[i] - t1[self][i] = 0 THEN <<0, 1>>
                     ELSE FloatDiv(Abs(CommunicationRange - st.dist_t2[i])
                                     * (st.t2[i] - t1[self][i]), delta)]
       ELSE [delta |-> delta, branch |-> "speed",
             val |-> FloatDiv(st.dist_t2[i], speed[self])]

\* the body of the loop of update_hello_interval for index i: the samples are
\* read at index i of the tables. A zero t2 - t1 makes the rate inf and the
\* duration 0.
LinkDuration(self, i, st) ==
    LET delta == st.dist_t2[i] - dist_t1[self][i]
    IN IF delta > 0
       THEN [delta |-> delta, branch |-> "closing",
             val |-> IF st.t2[i] - t1[self][i] = 0 THEN <<0, 1>>
                     ELSE FloatDiv(Abs(CommunicationRange - st.dist_t2[i])
                                     * (st.t2[i] - t1[self][i]), delta)]
       ELSE [delta |-> delta, branch |-> "speed",
             val |-> FloatDiv(st.dist_t2[i], speed[self])]

\* Drone.update_hello_interval(neighbors) on drone self; link_duration keeps
\* the array of the last call, each entry with its delta and its branch
UpdateHelloInterval(self, neighbors) ==
    /\ ~exited
    /\ IF Len(neighbors) = 0
       THEN UNCHANGED hellovars
       ELSE LET st == CalcDistances([dist_t2 |-> dist_t2[self], t2 |-> t2[self]],
                                    self, neighbors, 1)
                ld == [k \in 1 .. Len(neighbors) |-> LinkDuration(self, k - 1, st)]
                timer == NanMax(ld, 1, FloatNaN)
            IN /\ link_duration' = ld
               /\ link_holding_timer' = [link_holding_timer EXCEPT ![self] = timer]
               /\ hello_interval' = [hello_interval EXCEPT ![self] = CeilTau(timer)]
               /\ t2' = [t2 EXCEPT ![self] = st.t2]
               /\ dist_t2' = [dist_t2 EXCEPT ![self] = st.dist_t2]
               /\ t1' = [t1 EXCEPT ![self] = st.t2]
               /\ dist_t1' = [dist_t1 EXCEPT ![self] = st.dist_t2]
    /\ op' = NoOp
    /\ calls' = <<>>
    /\ UNCHANGED <<cfgvars, hop_log, cur_step, bufvars, qvars, flagvars, movevars, exited>>

\* the lists of neighbors of drone self: distinct drones other than self
NeighborLists(self) ==
    {l \in SeqsOf(Drones \ {self}, 0, n_drones - 1) :
        \A i, j \in 1 .. Len(l) : i # j => l[i] # l[j]}

(* ------------------------- feedback calls --------------------------- *)
\* the delay a broadcast passes with an outcome: update_packets passes
\* event_duration with -1, transfer_notified_packets passes
\* cur_step - event.current_time with 1
BroadcastDelay(id_event, outcome) ==
    IF outcome = -1 THEN EventDuration
    ELSE cur_step - events[id_event].current_time

\* one call of QTARRouting.feedback(drone, id_event, delay, outcome) on the
\* instance of drone self, as a broadcast of update_packets (outcome -1) or of
\* transfer_notified_packets (outcome 1) makes it
FeedbackCall(self, drone, id_event, outcome) ==
    /\ ~exited
    /\ routing_algorithm = QTAR
    /\ LET r == Feedback(q_table[self], taken_actions[self], drone, id_event,
                         BroadcastDelay(id_event, outcome), outcome)
       IN /\ q_table' = [q_table EXCEPT ![self] = r.q]
          /\ taken_actions' = [taken_actions EXCEPT ![self] = r.ta]
    /\ op' = NoOp
    /\ calls' = <<>>
    /\ UNCHANGED <<cfgvars, hop_log, cur_step, bufvars, residual_energy, flagvars,
                   movevars, hellovars, exited>>

PacketIds == 1 .. Len(packets)

(* ---------------- the buffer and depot specification ------------------ *)
Init == \E alg \in AlgNames : Construct(alg, NDrones, 1)

Next ==
    \/ Tick
    \/ \E d \in Drones : FeelEvent(d)
    \/ \E d \in Drones : UpdatePackets(d)

Spec == Init /\ [][Next]_vars

(* ----------------------- the depot specification ---------------------- *)
DepotNext ==
    \/ Tick
    \/ \E d \in Drones : FeelEvent(d)
    \/ \E d \in Drones : TransferNotifiedPackets(d)

SpecDepot == Init /\ [][DepotNext]_vars

(* ---------------------- the QTAR specification ------------------------ *)
\* simulator.n_drones of the roster used by the QTAR specification
QDrones == 3

QInit == Construct(QTAR, QDrones, 1)

\* Each drone owns its routing instance, and the instances share no state: the
\* specification exercises the instance of the first drone of the roster, with
\* every drone of the roster as relay and as feedback provider; the packets it
\* decides on are those its own drone sensed.
\* The simulation step stays at 0, so a delivery has delay 0 and an expiry has
\* delay event_duration.
QNext ==
    \/ FeelEvent(0)
    \/ \E p \in PacketIds :
         \/ \E hint \in Drones : RelaySelection(0, p, hint, {})
         \/ \E fast \in SUBSET Drones : RelaySelection(0, p, -1, fast)
    \/ \E x \in Drones : \E e \in 1 .. Len(events) : \E outcome \in {-1, 1} :
         FeedbackCall(0, x, e, outcome)

SpecQ == QInit /\ [][QNext]_vars

(* --------------------- the mobility specification --------------------- *)
\* the largest speed of a drone
MaxSpeed == 3

\* one drone of any speed up to MaxSpeed, at the start of its path
MoveInit == \E s \in 0 .. MaxSpeed : Construct(GEO, 1, s)

\* the simulator moves the drone once per step; the routing policy sets and
\* clears move_routing between the moves
MoveNext ==
    \/ \E d \in Drones : Move(d, TimeStepDuration)
    \/ \E d \in Drones : \E b \in BOOLEAN : SetMoveRouting(d, b)

SpecMove == MoveInit /\ [][MoveNext]_vars

\* the simulator's loop calls move on every drone at every step
SpecMoveFair == SpecMove /\ \A d \in {0} : WF_vars(Move(d, TimeStepDuration))

(* ------------------ the hello-interval specification ------------------ *)
\* a roster of drones of one speed, all at the start of the path
HelloInit == \E s \in 0 .. MaxSpeed : Construct(GEO, NDrones, s)

\* the first drone patrols its path while the others hold their position, and
\* at any step a drone may update its hello interval from a list of neighbors
HelloNext ==
    \/ Tick
    \/ \E d \in {0} : Move(d, TimeStepDuration)
    \/ \E d \in Drones : \E l \in NeighborLists(d) : UpdateHelloInterval(d, l)

SpecHello == HelloInit /\ [][HelloNext]_vars

(* ---------------------- the buffer specification ---------------------- *)
\* one drone, under any routing algorithm
BufferInit == \E alg \in AlgNames : Construct(alg, 1, 1)

\* every operation on the buffer of the drone, with any list of packets
\* offered or removed
BufferNext ==
    \/ Tick
    \/ \E d \in Drones : FeelEvent(d)
    \/ \E d \in Drones : \E l \in SeqsOf(PacketIds, 1, MaxOffer) : AcceptPackets(d, l)
    \/ \E d \in Drones : \E l \in SeqsOf(PacketIds, 1, MaxOffer) : RemovePackets(d, l)
    \/ \E d \in Drones : EmptyBuffer(d)
    \/ \E d \in Drones : UpdatePackets(d)

SpecBuffer == BufferInit /\ [][BufferNext]_vars

(* ---------------------- the packet specification ---------------------- *)
PacketInit == Construct(GEO, NDrones, 1)

\* drones sense events, and any drone is added as a hop of any packet
PacketNext ==
    \/ Tick
    \/ \E d \in Drones : FeelEvent(d)
    \/ \E p \in PacketIds : \E d \in Drones : PacketAddHop(p, d)

SpecPacket == PacketInit /\ [][PacketNext]_vars

(* ---------------------- the patrol specification ---------------------- *)
\* drones of one positive speed that are never diverted
PatrolInit == \E s \in 1 .. MaxSpeed : Construct(GEO, NDrones, s)

PatrolNext == \E d \in Drones : Move(d, TimeStepDuration)

\* the simulator's loop calls move on every drone at every step
SpecPatrol ==
    /\ PatrolInit /\ [][PatrolNext]_vars
    /\ \A d \in 0 .. (NDrones - 1) : WF_vars(Move(d, TimeStepDuration))

(* --------------------- the pruning specification ---------------------- *)
\* one drone of speed 1, which holds its position
PruneInit == Construct(GEO, 1, 1)

\* the drone senses while the routing policy sets and clears move_routing,
\* and its buffer is pruned at any step
PruneNext ==
    \/ Tick
    \/ \E d \in Drones : \E b \in BOOLEAN : SetMoveRouting(d, b)
    \/ \E d \in Drones : FeelEvent(d)
    \/ \E d \in Drones : UpdatePackets(d)

SpecPrune == PruneInit /\ [][PruneNext]_vars

(* --------------------- the sensing specification ---------------------- *)
\* one drone of speed 1
SenseInit == Construct(GEO, 1, 1)

\* the drone moves and senses at any step while the routing policy sets and
\* clears move_routing
SenseNext ==
    \/ Tick
    \/ \E d \in Drones : Move(d, TimeStepDuration)
    \/ \E d \in Drones : \E b \in BOOLEAN : SetMoveRouting(d, b)
    \/ \E d \in Drones : FeelEvent(d)

SpecSense == SenseInit /\ [][SenseNext]_vars

(* ====================================================================== *)
(*                               Claims                                   *)
(* ====================================================================== *)

\* the last operation was a relay_selection call
RelayDone == op.name = "relay_selection"

\* C1: a feedback call changes the value table only if its event id has a
\* pending entry; it then changes no table entry but the one of the recorded
\* action (q_table[action]) and removes exactly that pending entry, keeping the
\* others; without a pending entry it changes neither the table nor the pending
\* map; and an event id becomes pending again only by a relay_selection for it,
\* so until then every later feedback for it is one of those no-ops.
C1_FeedbackConsumesOnce ==
    [][/\ \A x \in Drones : \A e \in 1 .. Len(events) : \A outcome \in {-1, 1} :
            FeedbackCall(0, x, e, outcome) =>
                IF e \in DOMAIN taken_actions[0]
                THEN /\ \A i \in Drones :
                            i # PyIndex(taken_actions[0][e][2], n_drones)
                                => q_table'[0][i] = q_table[0][i]
                     /\ DOMAIN taken_actions'[0] = (DOMAIN taken_actions[0]) \ {e}
                     /\ \A f \in DOMAIN taken_actions'[0] :
                            taken_actions'[0][f] = taken_actions[0][f]
                ELSE /\ q_table' = q_table
                     /\ taken_actions' = taken_actions
       /\ \A e \in 1 .. Len(events) :
            (e \notin DOMAIN taken_actions[0] /\ e \in DOMAIN taken_actions'[0])
                => (op'.name = "relay_selection" /\ op'.id_event = e)
      ]_vars

\* C1, witness: a feedback has consumed the pending entry of event 1 (the table
\* holds a reward and the entry is gone) while the decision on event 2 is still
\* pending
C1_Witness ==
    /\ \E i \in Drones : q_table[0][i] # 0
    /\ DOMAIN taken_actions[0] = {2}
    /\ op = NoOp

C7_NoCandidateFails ==
    (RelayDone /\ op.neighborsId = {}) =>
        /\ op.ret \notin Drones
        /\ op.id_event \notin DOMAIN taken_actions[op.drone]

\* the positions of buf whose packet has event deadline < step (expired at step)
ExpiredAt(buf, step) ==
    {i \in 1 .. Len(buf) : events[packets[buf[i]].event_ref].deadline < step}

\* the number of feedback calls in cs made on the instance of drone t for the
\* event e by provider, with this delay and outcome
CallCount(cs, t, provider, e, delay, outcome) ==
    Cardinality({i \in 1 .. Len(cs) :
                    cs[i] = [to |-> t, drone |-> provider, id_event |-> e,
                             delay |-> delay, outcome |-> outcome]})

\* C2: under a routing algorithm that is none of GEO, RND, GEOS,
\* update_packets(step) on drone d makes, on the routing instance of every drone
\* of the roster, as many feedback calls with an event id, outcome -1 and delay
\* event_duration as it removes expired packets of that event, and no other
\* call (so none for a packet it keeps); under GEO, RND or GEOS it makes none.
C2_NegativeFeedbackBroadcast ==
    [][\A d \in Drones : UpdatePackets(d) =>
          IF routing_algorithm \in {GEO, RND, GEOS}
          THEN calls' = <<>>
          ELSE /\ \A t \in Drones : \A e \in 1 .. Len(events) :
                     CallCount(calls', t, d, e, EventDuration, -1) =
                         Cardinality({i \in ExpiredAt(buffer[d], cur_step) :
                                          packets[buffer[d][i]].event_ref = e})
               /\ Len(calls') =
                     n_drones * Cardinality(ExpiredAt(buffer[d], cur_step))
      ]_vars

\* C2, witness: under QTAR an update_packets has removed one expired packet,
\* calling feedback once per drone of the roster, and has kept another packet
C2_Witness ==
    /\ routing_algorithm = QTAR
    /\ Len(calls) = n_drones
    /\ \A i \in 1 .. Len(calls) : calls[i].outcome = -1
    /\ \E d \in Drones : Len(buffer[d]) = 1 /\ ~tightest_event_deadline[d].nan

\* C3: under a routing algorithm that is none of GEO, RND, GEOS,
\* transfer_notified_packets(source, step) makes, on the routing instance of
\* every drone of the roster, one feedback call per packet of the source's
\* buffer, with the source as provider, the packet's event id, outcome 1 and
\* delay step - generation time of the event, and no other call.
C3_PositiveFeedbackBroadcast ==
    [][\A d \in Drones :
          (TransferNotifiedPackets(d) /\ routing_algorithm \notin {GEO, RND, GEOS}) =>
              /\ \A t \in Drones : \A e \in 1 .. Len(events) :
                    CallCount(calls', t, d, e, cur_step - events[e].current_time, 1) =
                        Cardinality({i \in 1 .. Len(buffer[d]) :
                                        packets[buffer[d][i]].event_ref = e})
              /\ Len(calls') = n_drones * Len(buffer[d])
      ]_vars

\* C3, witness: under QTAR a transfer of a buffer of two packets, one step or
\* more after the first event was generated, has called feedback with outcome 1
\* twice per drone of the roster
C3_Witness ==
    /\ routing_algorithm = QTAR
    /\ Len(calls) = 2 * n_drones
    /\ \A i \in 1 .. Len(calls) : calls[i].outcome = 1
    /\ \E i \in 1 .. Len(calls) : calls[i].delay > 0

\* the minimum of a non-empty set of integers
SetMin(S) == CHOOSE x \in S : \A y \in S : x <= y

\* C4: after update_packets(step) on drone d the buffer of d is the subsequence
\* of its previous buffer whose packets have event deadline >= step, in the
\* previous order, and tightest_event_deadline is the minimum deadline of the
\* kept packets, NaN when none is kept; no other buffer changes.
C4_KeepsUnexpiredInOrder ==
    [][\A d \in Drones : UpdatePackets(d) =>
          LET Kept(p) == events[packets[p].event_ref].deadline >= cur_step
              kept == SelectSeq(buffer[d], Kept)
          IN /\ buffer'[d] = kept
             /\ \A o \in Drones \ {d} : buffer'[o] = buffer[o]
             /\ tightest_event_deadline'[d] =
                    IF kept = <<>> THEN NaN
                    ELSE Num(SetMin({events[packets[kept[i]].event_ref].deadline :
                                        i \in 1 .. Len(kept)}))
      ]_vars

\* C4, witness: an update_packets at step 2 has removed an expired packet
\* (feedback was called for it) and kept a packet whose deadline is the step
\* itself, which is now the tightest deadline
C4_Witness ==
    /\ cur_step = 2
    /\ Len(calls) > 0
    /\ \E d \in Drones :
          /\ Len(buffer[d]) = 1
          /\ events[packets[buffer[d][1]].event_ref].deadline = cur_step
          /\ tightest_event_deadline[d] = Num(cur_step)

\* C5: transfer_notified_packets(source, step) makes the depot's buffer its
\* previous content followed by the packets of the source's buffer, in order
\* (the same objects, also those the depot holds already), sets the delivery
\* time of each of them to step, changes nothing else of any packet, and leaves
\* every drone's buffer unchanged.
C5_DepotAppendsAndStamps ==
    [][\A d \in Drones : TransferNotifiedPackets(d) =>
          /\ depot_buffer' = depot_buffer \o buffer[d]
          /\ buffer' = buffer
          /\ Len(packets') = Len(packets)
          /\ \A p \in 1 .. Len(packets) :
                packets'[p] =
                    IF \E i \in 1 .. Len(buffer[d]) : buffer[d][i] = p
                    THEN [packets[p] EXCEPT !.time_delivery = cur_step]
                    ELSE packets[p]
      ]_vars

\* C5, witness: the depot holds the same packet twice, delivered again at the
\* current step, a step after its first delivery at the earliest, and the source
\* drone still holds it
C5_Witness ==
    /\ Len(depot_buffer) = 2
    /\ depot_buffer[1] = depot_buffer[2]
    /\ packets[depot_buffer[1]].time_delivery = cur_step
    /\ cur_step > packets[depot_buffer[1]].time_step_creation
    /\ Len(calls) > 0
    /\ \E d \in Drones : buffer[d] = <<depot_buffer[1]>>

\* C8: whenever move_routing was true at one move call of a drone and is false
\* at its next move call, that next call sets come_back_to_mission and heads to
\* last_mission_coords rather than to a path waypoint.
C8_ClearedDiversionReturns ==
    [][\A d \in Drones :
         (/\ Move(d, TimeStepDuration)
          /\ op.name = "move" /\ op.drone = d
          /\ op.move_routing
          /\ ~move_routing[d])
         => (/\ op'.come_back_to_mission
             /\ op'.p1 = last_mission_coords[d])]_vars

\* the part of C8 on the end of the return: come_back_to_mission is cleared
\* only by a move that puts the drone on last_mission_coords
C8_ClearedOnlyOnArrival ==
    [][\A d \in Drones :
         (come_back_to_mission[d] /\ ~come_back_to_mission'[d])
         => (/\ Move(d, TimeStepDuration)
             /\ coords'[d] = last_mission_coords[d])]_vars

\* C9: while move_routing is true and the drone is not on the depot, a move
\* call takes it speed*dt along the line to the depot, or onto the depot when
\* the remaining distance is at most speed*dt; the distance to the depot never
\* grows; and a drone of positive speed that keeps move_routing is on the
\* depot after finitely many calls.
C9_DivertsStraightToDepot ==
    /\ [][\A d \in Drones :
            (/\ Move(d, TimeStepDuration)
             /\ move_routing[d]
             /\ coords[d] # DepotCoords)
            => LET before == EuclideanDistance(coords[d], DepotCoords)
                   after == EuclideanDistance(coords'[d], DepotCoords)
                   moved == EuclideanDistance(coords[d], coords'[d])
                   step == speed[d] * TimeStepDuration
               IN /\ IF before <= step THEN coords'[d] = DepotCoords
                     ELSE moved = step /\ after = before - step
                  /\ moved + after = before
                  /\ after <= before]_vars
    /\ \A d \in {0} :
         (move_routing[d] /\ speed[d] > 0)
         ~> (coords[d] = DepotCoords \/ ~move_routing[d])

\* a diverting drone took a partial step and then a move that would pass the
\* depot put it on the depot
C9_Witness ==
    /\ op.name = "move" /\ op.move_routing
    /\ coords[op.drone] = DepotCoords
    /\ op.from # DepotCoords
    /\ \A i \in 1 .. Len(Path) : op.from # Path[i]
    /\ EuclideanDistance(op.from, DepotCoords) < speed[op.drone] * TimeStepDuration

C11_HelloIntervalAtLeastOne ==
    \A d \in Drones :
        (~IsNaN(link_holding_timer[d]) /\ FloatLeq(<<0, 1>>, link_holding_timer[d]))
        => (~IsNaN(hello_interval[d]) /\ FloatLeq(<<1, 1>>, hello_interval[d]))

\* C12: after any sequence of feel_event, accept_packets, update_packets,
\* remove_packets and empty_buffer calls the buffer of a drone holds at most
\* buffer_max_size packets.
C12_BufferBounded ==
    \A d \in Drones : Len(buffer[d]) <= BufferMaxSize

\* C13: in every reachable state a drone is in exactly one mobility state:
\* move_routing and come_back_to_mission are never both true.
C13_OneMobilityState ==
    \A d \in Drones : ~(move_routing[d] /\ come_back_to_mission[d])

C15_HopCountIsCallsMinusOne ==
    /\ [](/\ NewPacket(0, 1).TTL = -1
          /\ \A p \in PacketIds : packets[p].TTL = Len(hop_log[p]) - 1)
    /\ [][\A d \in Drones :
            FeelEvent(d)
            => LET pck == packets'[Len(packets')]
               IN pck.TTL = 0 /\ pck.last_2_hops = <<d>>]_vars

\* a packet that went through MaxHops hops after its creation
C15_Witness ==
    \E p \in PacketIds :
        Len(hop_log[p]) = MaxHops + 1 /\ packets[p].TTL = MaxHops

\* C16: after any sequence of add_hop calls last_2_hops has at most 2 entries
\* and holds exactly the most recently added hops, in the order they were
\* added.
C16_LastTwoHops ==
    \A p \in PacketIds :
        LET h == hop_log[p]
            l == packets[p].last_2_hops
        IN /\ Len(l) <= 2
           /\ l = IF Len(h) <= 2 THEN h ELSE SubSeq(h, Len(h) - 1, Len(h))

\* a packet with at least three hops, whose first hop left the window
C16_Witness ==
    \E p \in PacketIds :
        LET h == hop_log[p]
        IN /\ Len(h) >= 3
           /\ h[Len(h) - 1] # h[Len(h)]
           /\ packets[p].last_2_hops = <<h[Len(h) - 1], h[Len(h)]>>

\* C17: equality and hashing of entities depend on the id only: an entity
\* with the id of a drone, of an event or of a packet, at any coords, is equal
\* to it and has the same hash.
C17_HashByIdOnly ==
    /\ \A d \in Drones : \A c \in MapCoords :
         /\ EntityEq(Entity(d, coords[d]), Entity(d, c))
         /\ DroneHash(Entity(d, coords[d])) = DroneHash(Entity(d, c))
    /\ \A e \in 1 .. Len(events) : \A c \in MapCoords :
         /\ EntityEq(Entity(e, events[e].coords), Entity(e, c))
         /\ EntityHash(Entity(e, events[e].coords)) = EntityHash(Entity(e, c))
    /\ \A p \in PacketIds : \A c \in MapCoords :
         LET at == events[packets[p].event_ref].coords
         IN /\ EntityEq(Entity(p, at), Entity(p, c))
            /\ EntityHash(Entity(p, at)) = EntityHash(Entity(p, c))

\* C18: a move call never changes move_routing.
C18_MoveKeepsMoveRouting ==
    [][\A d \in Drones :
         Move(d, TimeStepDuration) => move_routing'[d] = move_routing[d]]_vars

\* C19: update_hello_interval(neighbors) computes the link duration of each
\* neighbor of the list from the t1/t2 samples stored under the identifier of
\* that neighbor, for any list of neighbors, and link_holding_timer is the
\* maximum of the durations.
C19_DurationFromOwnSamples ==
    [][\A d \in Drones : \A l \in NeighborLists(d) :
         (UpdateHelloInterval(d, l) /\ Len(l) > 0)
         => /\ \A k \in 1 .. Len(l) :
                 link_duration'[k] =
                     LinkDuration(d, l[k], [dist_t2 |-> dist_t2'[d], t2 |-> t2'[d]])
            /\ link_holding_timer'[d] = NanMax(link_duration', 1, FloatNaN)]_vars

\* C20: in each movement mode a move call with zero remaining distance to its
\* target, or with zero travel distance (speed*dt = 0), puts the drone on the
\* target and does not abort the run; the run aborts only for a negative
\* interpolation fraction.
C20_DegenerateMoveSnaps ==
    [][\A d \in Drones :
         Move(d, TimeStepDuration)
         => LET distance == TimeStepDuration * speed[d]
                target == op'.p1
            IN /\ (EuclideanDistance(coords[d], target) = 0 \/ distance = 0)
                    => (~exited' /\ coords'[d] = target)
               /\ exited' => distance < 0]_vars

\* the index of the waypoint a patrolling drone arrived at last
LastArrived(w) == IF w = -1 THEN Len(Path) - 1 ELSE w

\* C21: a drone that is never diverted, with positive speed, patrols its path
\* cyclically: a move that arrives at its target arrives at the waypoint after
\* the last one it arrived at (the first after the last of the path), other
\* moves keep the last waypoint; next_target() names the target of the next
\* move; the index that reads the path is within the path; and every waypoint
\* is reached again and again.
C21_CyclicPatrol ==
    /\ [][\A d \in Drones :
            Move(d, TimeStepDuration)
            => LET was == LastArrived(current_waypoint[d])
                   is == LastArrived(current_waypoint'[d])
               IN /\ NextTarget(d) = op'.p1
                  /\ IF coords'[d] = op'.p1
                     THEN /\ is = (was + 1) % Len(Path)
                          /\ coords'[d] = Path[is + 1]
                     ELSE is = was]_vars
    /\ [](\A d \in Drones :
            /\ current_waypoint[d] \in -1 .. (Len(Path) - 1)
            /\ WrapWaypoint(DroneState(d)).current_waypoint + 1
                   \in 0 .. (Len(Path) - 1)
            /\ ~exited)
    /\ \A d \in 0 .. (NDrones - 1) : \A i \in 1 .. Len(Path) :
          []<>(coords[d] = Path[i])

\* a drone went through the path and arrived back at its first waypoint
C21_Witness ==
    /\ op.name = "move"
    /\ op.from # Path[1]
    /\ op.p1 = Path[1]
    /\ coords[op.drone] = Path[1]
    /\ current_waypoint[op.drone] = 0

\* C22: from the first move of a diversion to the move on which the drone
\* arrives back at last_mission_coords, every move leaves current_waypoint as
\* it was, whatever its value (the last path index included).
C22_DiversionKeepsWaypoint ==
    [][\A d \in Drones :
         (/\ Move(d, TimeStepDuration)
          /\ (move_routing[d] \/ last_move_routing[d] \/ come_back_to_mission[d]))
         => current_waypoint'[d] = current_waypoint[d]]_vars

\* C23: after relay_selection(packet, hint) on the QTAR instance of drone X
\* returned drone d, the pending map holds (X, d) under the event id of the
\* packet; with a hint, d is the hinted drone; the value table and the pending
\* entries of the other event ids are unchanged.
C23_RecordsReturnedDrone ==
    [][\A p \in PacketIds : \A hint \in Drones \cup {-1} : \A fast \in SUBSET Drones :
         RelaySelection(0, p, hint, fast)
         => LET e == packets[p].event_ref
                ta == taken_actions[0]
            IN /\ taken_actions'[0][e] = <<0, op'.ret>>
               /\ hint # -1 => op'.ret = hint
               /\ q_table' = q_table
               /\ DOMAIN taken_actions'[0] = (DOMAIN ta) \cup {e}
               /\ \A x \in (DOMAIN ta) \ {e} : taken_actions'[0][x] = ta[x]]_vars

\* C24: after update_packets, if the buffer is empty then move_routing is
\* false, also when the buffer was empty before the call; if the buffer is not
\* empty the call leaves move_routing unchanged.
C24_EmptyBufferEndsDiversion ==
    [][\A d \in Drones :
         UpdatePackets(d)
         => /\ buffer'[d] = <<>> => ~move_routing'[d]
            /\ buffer'[d] # <<>> => move_routing'[d] = move_routing[d]
            /\ \A x \in Drones \ {d} : move_routing'[x] = move_routing[x]]_vars

\* update_packets found move_routing set and an empty buffer, and cleared the
\* flag
C24_Witness ==
    /\ op.name = "update_packets"
    /\ op.move_routing
    /\ op.before = <<>>
    /\ ~move_routing[op.drone]

\* C25: feel_event(step) appends exactly one new packet to the end of the
\* buffer, for a fresh event at the position of the drone with deadline
\* step + event_duration, first hop this drone and hop count 0, when the drone
\* is neither diverting nor returning; otherwise the buffer is unchanged and
\* the event is recorded as not listened.
C25_FeelEventAppendsOrRecords ==
    [][\A d \in Drones :
         FeelEvent(d)
         => LET ev == Len(events')
                pk == Len(packets')
            IN /\ Len(events') = Len(events) + 1
               /\ Len(packets') = Len(packets) + 1
               /\ events'[ev].coords = coords[d]
               /\ events'[ev].current_time = cur_step
               /\ events'[ev].deadline = cur_step + EventDuration
               /\ packets'[pk].event_ref = ev
               /\ IF ~move_routing[d] /\ ~come_back_to_mission[d]
                  THEN /\ buffer'[d] = Append(buffer[d], pk)
                       /\ packets'[pk].last_2_hops = <<d>>
                       /\ packets'[pk].TTL = 0
                       /\ events_not_listened' = events_not_listened
                  ELSE /\ buffer'[d] = buffer[d]
                       /\ events_not_listened' = events_not_listened \cup {ev}
               /\ \A x \in Drones \ {d} : buffer'[x] = buffer[x]]_vars

\* one event was sensed into the buffer, one was missed by a diverting drone
\* and one by a returning drone
C25_Witness ==
    /\ \E d \in Drones : buffer[d] # <<>>
    /\ events_not_listened # {}
    /\ \E d \in Drones : come_back_to_mission[d] /\ ~move_routing[d]
    /\ \E e \in events_not_listened : events[e].current_time = cur_step

\* the event of packet p
EventOf(p) == packets[p].event_ref

\* the entries of seq at the positions in I, in order, from position i on
RECURSIVE Restrict(_, _, _)
Restrict(seq, I, i) ==
    IF i > Len(seq) THEN <<>>
    ELSE (IF i \in I THEN <<seq[i]>> ELSE <<>>) \o Restrict(seq, I, i + 1)

\* C26: in every state reachable through feel_event, accept_packets,
\* update_packets, remove_packets and empty_buffer a buffer holds at most one
\* packet per event; accept_packets keeps the buffered packets and their
\* order, and appends, in the order offered, exactly the offered packets whose
\* event is neither buffered nor the event of a packet offered earlier in the
\* list.
C26_OnePacketPerEvent ==
    /\ [](\A d \in Drones : \A i, j \in 1 .. Len(buffer[d]) :
            i # j => EventOf(buffer[d][i]) # EventOf(buffer[d][j]))
    /\ [][\A d \in Drones : \A l \in SeqsOf(PacketIds, 1, MaxOffer) :
            AcceptPackets(d, l)
            => LET known == {EventOf(buffer[d][i]) : i \in 1 .. Len(buffer[d])}
                   new == {i \in 1 .. Len(l) :
                              /\ EventOf(l[i]) \notin known
                              /\ \A j \in 1 .. (i - 1) : EventOf(l[j]) # EventOf(l[i])}
               IN buffer'[d] = buffer[d] \o Restrict(l, new, 1)]_vars

\* accept_packets was offered a packet twice in one list, with another packet
\* already buffered, and appended it once
C26_Witness ==
    /\ op.name = "accept_packets"
    /\ Len(op.offered) = 2 /\ op.offered[1] = op.offered[2]
    /\ Len(op.before) = 1
    /\ buffer[op.drone] = Append(op.before, op.offered[1])

====
